---------------------------- MODULE Spec2Model ----------------------------
(***************************************************************************)
(* Model of intune_client/client.py: the IntuneClient class, its four      *)
(* public operations and the _request / _headers / _get_token helpers,     *)
(* run by two concurrent callers against one client instance.              *)
(*                                                                         *)
(* Text and bytes are sequences of one-character strings, so that          *)
(* str.rstrip, the f-string URL templates, json.dumps and json.loads are   *)
(* computed character by character.  The atom "xFF" stands for the byte    *)
(* 0xFF, which is not valid UTF-8.                                         *)
(***************************************************************************)
EXTENDS Integers, Sequences, FiniteSets, TLC

\* ------------------------------------------------------------------ bounds
MaxEndpointLen == 2

\* ------------------------------------------------------------------ text
RECURSIVE JoinFrom(_, _)
JoinFrom(s, i) == IF i > Len(s) THEN "" ELSE s[i] \o JoinFrom(s, i + 1)
\* The text of a character sequence as one string.
Join(s) == JoinFrom(s, 1)

RECURSIVE SeqsUpTo(_, _)
\* All sequences over alphabet A of length at most n.
SeqsUpTo(A, n) ==
  IF n = 0 THEN {<<>>}
  ELSE LET shorter == SeqsUpTo(A, n - 1)
       IN  shorter \cup {Append(s, c) : s \in shorter, c \in A}

\* A strip that drops one trailing character at most.
rstrip_once(s, c) ==
  IF s # <<>> /\ s[Len(s)] = c THEN SubSeq(s, 1, Len(s) - 1) ELSE s

RECURSIVE rstrip(_, _)
\* str.rstrip(chars) for a single strip character: drops EVERY trailing one.
rstrip(s, c) ==
  IF s # <<>> /\ s[Len(s)] = c THEN rstrip(SubSeq(s, 1, Len(s) - 1), c) ELSE s

InvalidByte == "xFF"

\* bytes.decode() (UTF-8, strict) on bytes that are ASCII or 0xFF.
CanDecode(b) == \A i \in 1..Len(b) : b[i] # InvalidByte
decode(b) == Join(b)

\* ------------------------------------------------------------------ JSON values
\* Python values, tagged by type; each tag has its own field name.
None == [t |-> "None"]
Dict(members) == [t |-> "dict", members |-> members]   \* <<key, value>> pairs, in insertion order
List(items) == [t |-> "list", items |-> items]
Str(chars) == [t |-> "str", chars |-> chars]
PyInt(n) == [t |-> "int", n |-> n]

DigitChars == <<"0", "1", "2", "3", "4", "5", "6", "7", "8", "9">>
IsDigit(c) == \E d \in 1..10 : DigitChars[d] = c
DigitValue(c) == (CHOOSE d \in 1..10 : DigitChars[d] = c) - 1
IsWhitespace(c) == c \in {" ", "\t", "\n", "\r"}

RECURSIVE IntChars(_)
IntChars(n) == IF n < 10 THEN <<DigitChars[n + 1]>>
               ELSE IntChars(n \div 10) \o <<DigitChars[(n % 10) + 1]>>

RECURSIVE json_dumps(_), DumpMembers(_), DumpItems(_)
\* json.dumps with its default separators ", " and ": ".
json_dumps(v) ==
  CASE v.t = "dict" -> <<"{">> \o DumpMembers(v.members) \o <<"}">>
    [] v.t = "list" -> <<"[">> \o DumpItems(v.items) \o <<"]">>
    [] v.t = "str"  -> <<"\"">> \o v.chars \o <<"\"">>
    [] v.t = "int"  -> IntChars(v.n)
    [] v.t = "None" -> <<"n", "u", "l", "l">>
DumpMembers(ms) ==
  IF ms = <<>> THEN <<>>
  ELSE <<"\"">> \o ms[1][1] \o <<"\"", ":", " ">> \o json_dumps(ms[1][2])
       \o (IF Len(ms) > 1 THEN <<",", " ">> \o DumpMembers(Tail(ms)) ELSE <<>>)
DumpItems(xs) ==
  IF xs = <<>> THEN <<>>
  ELSE json_dumps(xs[1])
       \o (IF Len(xs) > 1 THEN <<",", " ">> \o DumpItems(Tail(xs)) ELSE <<>>)

\* A parse result: ok, the value, and the position after it.
Parsed(v, i) == [ok |-> TRUE, val |-> v, pos |-> i]
ParseError == [ok |-> FALSE, val |-> None, pos |-> 0]

RECURSIVE SkipWs(_, _)
SkipWs(s, i) == IF i <= Len(s) /\ IsWhitespace(s[i]) THEN SkipWs(s, i + 1) ELSE i

RECURSIVE StringEnd(_, _)
\* Index of the closing quote of a string whose content starts at i; 0 if none.
StringEnd(s, i) ==
  IF i > Len(s) THEN 0
  ELSE IF s[i] = "\"" THEN i
  ELSE IF s[i] \in {"\\", "\n", "\t", "\r"} THEN 0
  ELSE StringEnd(s, i + 1)

ParseString(s, i) ==
  IF i > Len(s) \/ s[i] # "\"" THEN ParseError
  ELSE LET e == StringEnd(s, i + 1)
       IN  IF e = 0 THEN ParseError ELSE Parsed(Str(SubSeq(s, i + 1, e - 1)), e + 1)

RECURSIVE DigitsEnd(_, _)
DigitsEnd(s, i) == IF i <= Len(s) /\ IsDigit(s[i]) THEN DigitsEnd(s, i + 1) ELSE i

RECURSIVE DigitsValue(_, _, _)
DigitsValue(s, i, e) ==
  IF e < i THEN 0 ELSE 10 * DigitsValue(s, i, e - 1) + DigitValue(s[e])

\* A non-negative integer literal; a leading "0" is a literal of its own.
ParseInt(s, i) ==
  LET e == IF s[i] = "0" THEN i + 1 ELSE DigitsEnd(s, i)
  IN  Parsed(PyInt(DigitsValue(s, i, e - 1)), e)

IsWord(s, i, w) == i + Len(w) - 1 <= Len(s) /\ SubSeq(s, i, i + Len(w) - 1) = w

RECURSIVE ParseValue(_, _), ParseMembers(_, _, _), ParseItems(_, _, _)
ParseValue(s, i) ==
  IF i > Len(s) THEN ParseError
  ELSE CASE s[i] = "{" ->
              LET j == SkipWs(s, i + 1)
              IN  IF j <= Len(s) /\ s[j] = "}" THEN Parsed(Dict(<<>>), j + 1)
                  ELSE ParseMembers(s, j, <<>>)
         [] s[i] = "[" ->
              LET j == SkipWs(s, i + 1)
              IN  IF j <= Len(s) /\ s[j] = "]" THEN Parsed(List(<<>>), j + 1)
                  ELSE ParseItems(s, j, <<>>)
         [] s[i] = "\"" -> ParseString(s, i)
         [] IsDigit(s[i]) -> ParseInt(s, i)
         [] s[i] = "n" -> IF IsWord(s, i, <<"n", "u", "l", "l">>)
                          THEN Parsed(None, i + 4) ELSE ParseError
         [] OTHER -> ParseError
\* Members of an object from position i (at a key), acc the members so far.
ParseMembers(s, i, acc) ==
  LET k == ParseString(s, i)
  IN  IF ~k.ok THEN ParseError
      ELSE LET c == SkipWs(s, k.pos)
           IN  IF c > Len(s) \/ s[c] # ":" THEN ParseError
               ELSE LET v == ParseValue(s, SkipWs(s, c + 1))
                    IN  IF ~v.ok THEN ParseError
                        ELSE LET e == SkipWs(s, v.pos)
                                 all == Append(acc, <<k.val.chars, v.val>>)
                             IN  IF e > Len(s) THEN ParseError
                                 ELSE IF s[e] = "}" THEN Parsed(Dict(all), e + 1)
                                 ELSE IF s[e] = "," THEN ParseMembers(s, SkipWs(s, e + 1), all)
                                 ELSE ParseError
\* Items of an array from position i (at a value), acc the items so far.
ParseItems(s, i, acc) ==
  LET v == ParseValue(s, i)
  IN  IF ~v.ok THEN ParseError
      ELSE LET e == SkipWs(s, v.pos)
               all == Append(acc, v.val)
           IN  IF e > Len(s) THEN ParseError
               ELSE IF s[e] = "]" THEN Parsed(List(all), e + 1)
               ELSE IF s[e] = "," THEN ParseItems(s, SkipWs(s, e + 1), all)
               ELSE ParseError

\* json.loads on bytes: ok and the value, or the error it raises.
json_loads(content) ==
  IF ~CanDecode(content)
  THEN [ok |-> FALSE, val |-> None, err |-> "UnicodeDecodeError"]
  ELSE LET v == ParseValue(content, SkipWs(content, 1))
       IN  IF v.ok /\ SkipWs(content, v.pos) = Len(content) + 1
           THEN [ok |-> TRUE, val |-> v.val, err |-> "none"]
           ELSE [ok |-> FALSE, val |-> None, err |-> "JSONDecodeError"]

\* ------------------------------------------------------------------ inputs
Threads == {"caller1", "caller2"}

DefaultEndpoint ==
  <<"h", "t", "t", "p", "s", ":", "/", "/", "g", "r", "a", "p", "h", ".", "m", "i", "c", "r", "o", "s", "o", "f", "t", ".", "c", "o", "m", "/", "b", "e", "t", "a">>

\* Endpoint arguments of the constructor: the default and short custom ones.
EndpointArgs == {DefaultEndpoint} \cup SeqsUpTo({"h", "/"}, MaxEndpointLen)

ProfileIds == {<<"1", "2", "3">>}

\* Payload mappings handed to the public operations (JSON-serializable).
Payloads == {Dict(<<>>), Dict(<< <<<<"n", "a", "m", "e">>, Str(<<"p", "1">>)>> >>)}

\* Token strings the credential may return, a possibly different one per call.
Tokens == {"dummy-token", "token-2"}

NoError == [type |-> "none", msg |-> "", cause |-> "none"]
Error(type, msg, cause) == [type |-> type, msg |-> msg, cause |-> cause]

\* Errors the credential's get_token may raise.
CredentialErrors == {Error("ClientAuthenticationError", "authentication failed", "none")}

\* Bodies of successful responses: empty, JSON objects, JSON that is no object, no JSON.
OkBodies ==
  { <<>>,
    <<"{", "}">>,
    <<"{", "\"", "i", "d", "\"", ":", " ", "\"", "1", "\"", "}">>,
    <<"[", "]">>,
    <<"o", "k">>,
    <<InvalidByte>> }

Response(kind, code, body, err) == [kind |-> kind, code |-> code, body |-> body, err |-> err]
NoResponse == Response("none", 0, <<>>, NoError)

\* What urlopen can do with a request: return a 2xx response, raise HTTPError
\* for an error status, or raise another (transport) error.
Responses ==
  {Response("ok", 200, b, NoError) : b \in OkBodies}
  \cup {Response("ok", 204, <<>>, NoError)}
  \cup {Response("HTTPError", 404, <<"n", "o", "t", " ", "f", "o", "u", "n", "d">>, NoError),
        Response("HTTPError", 500, <<>>, NoError),
        Response("HTTPError", 403, <<InvalidByte>>, NoError)}
  \cup {Response("error", 0, <<>>, Error("URLError", "connection refused", "none"))}

\* ------------------------------------------------------------------ state
VARIABLES
  endpointArg,   \* the endpoint argument the client was constructed with
  _endpoint,     \* self._endpoint
  _credential,   \* self._credential, a reference to the credential object
  pc,            \* per caller: idle, headers, urlopen, waiting, done
  op,            \* per caller: the public operation running and its arguments
  method,        \* per caller: _request's method
  url,           \* per caller: _request's url
  body,          \* per caller: _request's body, None or bytes
  headers,       \* per caller: the headers mapping built by _headers
  tokenCalls,    \* per caller: the get_token calls of the running operation
  sent,          \* per caller: the HTTP requests the running operation issued
  response,      \* per caller: what urlopen did
  result         \* per caller: how the public operation ended

vars == <<endpointArg, _endpoint, _credential, pc, op, method, url, body, headers,
          tokenCalls, sent, response, result>>

Scope == "https://graph.microsoft.com/.default"

NoCall == [name |-> "none", profile_id |-> <<>>, data |-> None]
Bytes(b) == [t |-> "bytes", b |-> b]
NoHeaders == [t |-> "None"]
Return(v) == [kind |-> "return", value |-> v, exc |-> NoError]
Raise(e) == [kind |-> "raise", value |-> None, exc |-> e]
NoResult == [kind |-> "none", value |-> None, exc |-> NoError]

\* ------------------------------------------------------------------ the client
\* IntuneClient.__init__: the endpoint as stored.
\* (mutant: only one trailing slash is dropped)
init_strip_one(endpoint) == rstrip_once(endpoint, "/")
IntuneClient_init(endpoint) == rstrip(endpoint, "/")

DeviceConfigurations ==
  <<"/", "d", "e", "v", "i", "c", "e", "M", "a", "n", "a", "g", "e", "m", "e", "n", "t", "/", "d", "e", "v", "i", "c", "e", "C", "o", "n", "f", "i", "g", "u", "r", "a", "t", "i", "o", "n", "s">>
Assign == <<"/", "a", "s", "s", "i", "g", "n">>

\* _get_token: the token string taken from what the credential returned.
\* (mutant: a token another caller's running operation already holds is reused)
_get_token_shared(t, returned) ==
  IF \E u \in Threads \ {t} : headers[u] # NoHeaders
  THEN LET u == CHOOSE u \in Threads \ {t} : headers[u] # NoHeaders
       IN  tokenCalls[u][1].token
  ELSE returned
_get_token(t, returned) == returned

\* _headers: the mapping built from the token.
_headers(token) ==
  ("Authorization" :> ("Bearer " \o token)) @@ ("Content-Type" :> "application/json")

\* _request, lines 47-49: the body for a payload.
RequestBody_truthy(data) ==
  IF data # None /\ data # Dict(<<>>) THEN Bytes(json_dumps(data)) ELSE None
RequestBody(data) == IF data # None THEN Bytes(json_dumps(data)) ELSE None

Request(m, u, b, h) == [method |-> m, url |-> u, body |-> b, headers |-> h]

\* _request, line 50: the url the Request object is built from, _request's own.
\* (mutant: the url is kept in state shared by the callers)
RequestUrl_shared(t) ==
  IF \E u \in Threads \ {t} : pc[u] \in {"headers", "urlopen"}
  THEN url[CHOOSE u \in Threads \ {t} : pc[u] \in {"headers", "urlopen"}]
  ELSE url[t]
RequestUrl(t) == url[t]

\* _request, lines 53-56: what a successful response's content yields.
ReadContent_always_parse(content) ==
  LET v == json_loads(content)
  IN  IF v.ok THEN Return(v.val) ELSE Raise(Error(v.err, "", "none"))
ReadContent(content) ==
  IF content # <<>>
  THEN LET v == json_loads(content)
       IN  IF v.ok THEN Return(v.val) ELSE Raise(Error(v.err, "", "none"))
  ELSE Return(Dict(<<>>))

\* _request, line 57: the errors the except clause catches.
Caught_URLError(resp) == resp.kind \in {"HTTPError", "error"}
Caught(resp) == resp.kind = "HTTPError"

\* _request, line 59: the message of the RuntimeError.
FailureMessage_no_body(code, msg) == "Request failed: " \o ToString(code)
FailureMessage(code, msg) == "Request failed: " \o ToString(code) \o " " \o msg

\* _request, lines 51-59: how _request ends for what urlopen did.
RequestOutcome(resp) ==
  IF Caught(resp)
  THEN IF CanDecode(resp.body)
       THEN Raise(Error("RuntimeError", FailureMessage(resp.code, decode(resp.body)),
                        "HTTPError"))
       ELSE Raise(Error("UnicodeDecodeError", "", "HTTPError"))
  ELSE IF resp.kind = "ok" THEN ReadContent(resp.body)
  ELSE Raise(resp.err)

\* How the public operation ends: delete_profile drops _request's value.
OperationOutcome(name, out) ==
  IF name = "delete_profile" /\ out.kind = "return" THEN Return(None) ELSE out

\* Where a caller goes after get_token returned (ok) or raised.
PcAfterGetToken_send_anyway(ok) == "urlopen"
PcAfterGetToken(ok) == IF ok THEN "urlopen" ELSE "done"

\* Where a caller goes after urlopen returned or raised: _request never loops.
PcAfterResponse_retry(resp) == IF resp.kind = "error" THEN "urlopen" ELSE "done"
PcAfterResponse(resp) == "done"

\* ------------------------------------------------------------------ actions
Init ==
  /\ endpointArg \in EndpointArgs
  /\ _endpoint = IntuneClient_init(endpointArg)
  /\ _credential = "credential"
  /\ pc = [t \in Threads |-> "idle"]
  /\ op = [t \in Threads |-> NoCall]
  /\ method = [t \in Threads |-> ""]
  /\ url = [t \in Threads |-> <<>>]
  /\ body = [t \in Threads |-> None]
  /\ headers = [t \in Threads |-> NoHeaders]
  /\ tokenCalls = [t \in Threads |-> <<>>]
  /\ sent = [t \in Threads |-> <<>>]
  /\ response = [t \in Threads |-> NoResponse]
  /\ result = [t \in Threads |-> NoResult]

\* A public operation up to the call of self._headers(): the URL is built,
\* _request is entered and the payload serialized.
Enter(t, name, profile_id, payload, m, u, data) ==
  /\ pc[t] = "idle"
  /\ op' = [op EXCEPT ![t] = [name |-> name, profile_id |-> profile_id, data |-> payload]]
  /\ method' = [method EXCEPT ![t] = m]
  /\ url' = [url EXCEPT ![t] = u]
  /\ body' = [body EXCEPT ![t] = RequestBody(data)]
  /\ pc' = [pc EXCEPT ![t] = "headers"]
  /\ UNCHANGED <<endpointArg, _endpoint, _credential, headers, tokenCalls, sent,
                 response, result>>

create_profile(t) ==
  \E profile_data \in Payloads :
    Enter(t, "create_profile", <<>>, profile_data,
          "POST", _endpoint \o DeviceConfigurations, profile_data)

update_profile(t) ==
  \E profile_id \in ProfileIds, profile_data \in Payloads :
    Enter(t, "update_profile", profile_id, profile_data,
          "PATCH", _endpoint \o DeviceConfigurations \o <<"/">> \o profile_id, profile_data)

delete_profile(t) ==
  \E profile_id \in ProfileIds :
    Enter(t, "delete_profile", profile_id, None,
          "DELETE", _endpoint \o DeviceConfigurations \o <<"/">> \o profile_id, None)

modify_assignments(t) ==
  \E profile_id \in ProfileIds, assignments \in Payloads :
    Enter(t, "modify_assignments", profile_id, assignments,
          "POST", _endpoint \o DeviceConfigurations \o <<"/">> \o profile_id \o Assign,
          assignments)

\* self._headers() -> self._get_token(): the credential returns a token.
GetTokenReturns(t) ==
  /\ pc[t] = "headers"
  /\ \E returned \in Tokens :
       /\ tokenCalls' = [tokenCalls EXCEPT ![t] =
            Append(@, [scopes |-> <<Scope>>, ok |-> TRUE, token |-> returned,
                       err |-> NoError])]
       /\ headers' = [headers EXCEPT ![t] = _headers(_get_token(t, returned))]
  /\ pc' = [pc EXCEPT ![t] = PcAfterGetToken(TRUE)]
  /\ UNCHANGED <<endpointArg, _endpoint, _credential, op, method, url, body, sent,
                 response, result>>

\* self._headers() -> self._get_token(): the credential raises.
GetTokenRaises(t) ==
  /\ pc[t] = "headers"
  /\ \E e \in CredentialErrors :
       /\ tokenCalls' = [tokenCalls EXCEPT ![t] =
            Append(@, [scopes |-> <<Scope>>, ok |-> FALSE, token |-> "", err |-> e])]
       /\ result' = [result EXCEPT ![t] = Raise(e)]
  /\ pc' = [pc EXCEPT ![t] = PcAfterGetToken(FALSE)]
  /\ UNCHANGED <<endpointArg, _endpoint, _credential, op, method, url, body, headers,
                 sent, response>>

\* urllib.request.urlopen(req): the request goes out.
UrlOpen(t) ==
  /\ pc[t] = "urlopen"
  /\ sent' = [sent EXCEPT ![t] = Append(@, Request(method[t], RequestUrl(t), body[t], headers[t]))]
  /\ pc' = [pc EXCEPT ![t] = "waiting"]
  /\ UNCHANGED <<endpointArg, _endpoint, _credential, op, method, url, body, headers,
                 tokenCalls, response, result>>

\* urlopen returns or raises, and _request and the public operation finish.
Respond(t) ==
  /\ pc[t] = "waiting"
  /\ \E resp \in Responses :
       /\ response' = [response EXCEPT ![t] = resp]
       /\ result' = [result EXCEPT ![t] = OperationOutcome(op[t].name, RequestOutcome(resp))]
       /\ pc' = [pc EXCEPT ![t] = PcAfterResponse(resp)]
  /\ UNCHANGED <<endpointArg, _endpoint, _credential, op, method, url, body, headers,
                 tokenCalls, sent>>

\* The caller has the outcome; the operation's locals are gone.
Finish(t) ==
  /\ pc[t] = "done"
  /\ pc' = [pc EXCEPT ![t] = "idle"]
  /\ op' = [op EXCEPT ![t] = NoCall]
  /\ method' = [method EXCEPT ![t] = ""]
  /\ url' = [url EXCEPT ![t] = <<>>]
  /\ body' = [body EXCEPT ![t] = None]
  /\ headers' = [headers EXCEPT ![t] = NoHeaders]
  /\ tokenCalls' = [tokenCalls EXCEPT ![t] = <<>>]
  /\ sent' = [sent EXCEPT ![t] = <<>>]
  /\ response' = [response EXCEPT ![t] = NoResponse]
  /\ result' = [result EXCEPT ![t] = NoResult]
  /\ UNCHANGED <<endpointArg, _endpoint, _credential>>

Next ==
  \E t \in Threads :
    \/ create_profile(t)
    \/ update_profile(t)
    \/ delete_profile(t)
    \/ modify_assignments(t)
    \/ GetTokenReturns(t)
    \/ GetTokenRaises(t)
    \/ UrlOpen(t)
    \/ Respond(t)
    \/ Finish(t)

Spec == Init /\ [][Next]_vars

\* ------------------------------------------------------------------ properties
Running(t) == pc[t] # "idle"
Done(t) == pc[t] = "done"
CredentialRaised(t) == tokenCalls[t] # <<>> /\ ~tokenCalls[t][Len(tokenCalls[t])].ok
Responded(t, kind) == Done(t) /\ response[t].kind = kind
ReturnsMapping == {"create_profile", "update_profile", "modify_assignments"}

\* What each operation is to send, from its own arguments and the endpoint.
ExpectedMethod(o) ==
  CASE o.name = "create_profile" -> "POST"
    [] o.name = "update_profile" -> "PATCH"
    [] o.name = "delete_profile" -> "DELETE"
    [] o.name = "modify_assignments" -> "POST"
\* The text "/deviceManagement/deviceConfigurations" and the text "/assign".
ConfigurationsPath ==
  <<"/", "d", "e", "v", "i", "c", "e", "M", "a", "n", "a", "g", "e", "m", "e", "n", "t", "/", "d", "e", "v", "i", "c", "e", "C", "o", "n", "f", "i", "g", "u", "r", "a", "t", "i", "o", "n", "s">>
AssignSuffix == <<"/", "a", "s", "s", "i", "g", "n">>
ExpectedUrl(o) ==
  CASE o.name = "create_profile" -> _endpoint \o ConfigurationsPath
    [] o.name = "update_profile" -> _endpoint \o ConfigurationsPath \o <<"/">> \o o.profile_id
    [] o.name = "delete_profile" -> _endpoint \o ConfigurationsPath \o <<"/">> \o o.profile_id
    [] o.name = "modify_assignments" ->
         _endpoint \o ConfigurationsPath \o <<"/">> \o o.profile_id \o AssignSuffix
NameP1 == Dict(<< <<<<"n", "a", "m", "e">>, Str(<<"p", "1">>)>> >>)

\* C1: every request an operation issued carries Authorization "Bearer " plus
\* the token its own get_token call returned, and Content-Type application/json.
C1_FreshBearerToken ==
  \A t \in Threads : \A i \in 1..Len(sent[t]) :
    /\ Len(tokenCalls[t]) = 1
    /\ tokenCalls[t][1].ok
    /\ DOMAIN sent[t][i].headers = {"Authorization", "Content-Type"}
    /\ sent[t][i].headers["Authorization"] = "Bearer " \o tokenCalls[t][1].token
    /\ sent[t][i].headers["Content-Type"] = "application/json"

\* Two callers have requests out at once, each with a different token.
C1_Witness ==
  \E t, u \in Threads :
    /\ sent[t] # <<>> /\ sent[u] # <<>>
    /\ tokenCalls[t][1].token = "dummy-token"
    /\ tokenCalls[u][1].token = "token-2"
    /\ sent[t][1].headers["Authorization"] = "Bearer dummy-token"
    /\ sent[u][1].headers["Authorization"] = "Bearer token-2"

\* C2: an HTTP error response with status code C and body text B makes every
\* operation fail with the RuntimeError "Request failed: C B", returning nothing.
C2_HttpErrorMessage ==
  \A t \in Threads :
    Responded(t, "HTTPError") /\ CanDecode(response[t].body) =>
      /\ result[t].kind = "raise"
      /\ result[t].value = None
      /\ result[t].exc.type = "RuntimeError"
      /\ result[t].exc.msg =
           "Request failed: " \o ToString(response[t].code) \o " " \o Join(response[t].body)
      /\ (response[t].code = 404 /\ Join(response[t].body) = "not found"
            => result[t].exc.msg = "Request failed: 404 not found")
      /\ (response[t].code = 500 /\ response[t].body = <<>>
            => result[t].exc.msg = "Request failed: 500 ")

\* delete_profile and create_profile have both failed on 404 "not found".
C2_Witness ==
  \E t, u \in Threads :
    /\ Responded(t, "HTTPError") /\ op[t].name = "delete_profile"
    /\ Responded(u, "HTTPError") /\ op[u].name = "create_profile"
    /\ response[t].code = 404 /\ response[u].code = 404
    /\ result[t].exc.msg = "Request failed: 404 not found"
    /\ result[u].exc.msg = "Request failed: 404 not found"

\* C3 as claimed: every successful response to create_profile, update_profile
\* or modify_assignments makes the operation return a mapping, the parsed body
\* or the empty mapping.
C3_AlwaysReturnsMapping ==
  \A t \in Threads :
    Responded(t, "ok") /\ op[t].name \in ReturnsMapping =>
      /\ result[t].kind = "return"
      /\ result[t].value.t = "dict"

\* C3 as amended: on a successful response these operations return the empty
\* mapping for an empty body, the value the body parses to for a non-empty
\* body that is JSON (a mapping exactly when the body is a JSON object), and
\* fail with the decoder's error for a non-empty body that is not JSON.
C3_ReturnsParsedBody ==
  \A t \in Threads :
    Responded(t, "ok") /\ op[t].name \in ReturnsMapping =>
      LET content == response[t].body
          parsed == json_loads(content)
      IN  /\ content = <<>> => result[t] = Return(Dict(<<>>))
          /\ content # <<>> /\ parsed.ok => result[t] = Return(parsed.val)
          /\ content # <<>> /\ ~parsed.ok =>
               /\ result[t].kind = "raise"
               /\ result[t].exc.type \in {"JSONDecodeError", "UnicodeDecodeError"}
          /\ content = <<"{", "\"", "i", "d", "\"", ":", " ", "\"", "1", "\"", "}">> =>
               result[t].value = Dict(<< << <<"i", "d">>, Str(<<"1">>) >> >>)
          /\ content = <<"[", "]">> => result[t] = Return(List(<<>>))
          /\ content = <<"o", "k">> => result[t].exc.type = "JSONDecodeError"

\* create_profile got the body {"id": "1"} and update_profile an empty body.
C3_Witness ==
  \E t, u \in Threads :
    /\ Responded(t, "ok") /\ op[t].name = "create_profile"
    /\ response[t].body = <<"{", "\"", "i", "d", "\"", ":", " ", "\"", "1", "\"", "}">>
    /\ result[t].kind = "return" /\ result[t].value.t = "dict"
    /\ Responded(u, "ok") /\ op[u].name = "update_profile"
    /\ response[u].body = <<>>
    /\ result[u] = Return(Dict(<<>>))

\* C4: delete_profile sends a DELETE without a body and, on every successful
\* response, whatever the body holds, completes and returns nothing.
C4_DeleteReturnsNothing ==
  \A t \in Threads :
    op[t].name = "delete_profile" =>
      /\ \A i \in 1..Len(sent[t]) :
           sent[t][i].method = "DELETE" /\ sent[t][i].body = None
      /\ Responded(t, "ok") => result[t] = Return(None)

\* C5: each operation sends its fixed method, its URL built from the endpoint
\* and the profile id, and the JSON encoding of its payload; a body is sent
\* exactly when there is a payload, the empty mapping included.
C5_MethodUrlBody ==
  \A t \in Threads : \A i \in 1..Len(sent[t]) :
    LET r == sent[t][i]
        o == op[t]
    IN  /\ r.method = ExpectedMethod(o)
        /\ r.url = ExpectedUrl(o)
        /\ (r.body # None) <=> (o.data # None)
        /\ (o.name = "delete_profile") <=> (o.data = None)
        /\ o.data # None => r.body = Bytes(json_dumps(o.data))
        /\ o.data = Dict(<<>>) => r.body = Bytes(<<"{", "}">>)
        /\ o.data = NameP1 => r.body = Bytes(<<"{", "\"", "n", "a", "m", "e", "\"", ":", " ", "\"", "p", "1", "\"", "}">>)

\* modify_assignments sent the empty mapping as the body {} while
\* delete_profile sent no body.
C5_Witness ==
  \E t, u \in Threads :
    /\ op[t].name = "modify_assignments" /\ op[t].data = Dict(<<>>)
    /\ sent[t] # <<>> /\ sent[t][1].body = Bytes(<<"{", "}">>)
    /\ sent[t][1].method = "POST"
    /\ op[u].name = "delete_profile"
    /\ sent[u] # <<>> /\ sent[u][1].body = None

\* C6: the stored endpoint is the constructor's argument without its trailing
\* slashes: it never ends in "/", equals the argument when that has no trailing
\* slash, and every URL built starts with it and the deviceConfigurations path.
C6_EndpointStripped ==
  /\ Len(_endpoint) <= Len(endpointArg)
  /\ SubSeq(endpointArg, 1, Len(_endpoint)) = _endpoint
  /\ \A i \in (Len(_endpoint) + 1)..Len(endpointArg) : endpointArg[i] = "/"
  /\ _endpoint # <<>> => _endpoint[Len(_endpoint)] # "/"
  /\ (endpointArg = <<>> \/ endpointArg[Len(endpointArg)] # "/") => _endpoint = endpointArg
  /\ (endpointArg # <<>> /\ endpointArg[Len(endpointArg)] = "/") =>
       Len(_endpoint) < Len(endpointArg)
  /\ \A t \in Threads :
       /\ Running(t) =>
            /\ Len(url[t]) >= Len(_endpoint) + 38
            /\ SubSeq(url[t], 1, Len(_endpoint) + 38) = _endpoint \o ConfigurationsPath
       /\ \A i \in 1..Len(sent[t]) :
            SubSeq(sent[t][i].url, 1, Len(_endpoint) + 38) = _endpoint \o ConfigurationsPath

\* A client constructed with "h/" stores "h" and has sent a request to a URL
\* under "h/deviceManagement/deviceConfigurations".
C6_Witness ==
  /\ endpointArg = <<"h", "/">>
  /\ _endpoint = <<"h">>
  /\ \E t \in Threads :
       /\ sent[t] # <<>>
       /\ op[t].name = "update_profile"
       /\ sent[t][1].url = <<"h">> \o ConfigurationsPath \o <<"/", "1", "2", "3">>

\* C7 as claimed: whatever the outcome, an operation that has ended has
\* issued exactly one HTTP request.
C7_ExactlyOneRequest ==
  \A t \in Threads : Done(t) => Len(sent[t]) = 1

\* C7 as amended: an operation never issues more than one HTTP request; when
\* it ends it has issued exactly one if get_token returned (success, HTTP
\* error or transport failure alike) and none if get_token raised.
C7_OneRequestUnlessCredentialFails ==
  \A t \in Threads :
    /\ Len(sent[t]) <= 1
    /\ Done(t) /\ ~CredentialRaised(t) => Len(sent[t]) = 1
    /\ Done(t) /\ CredentialRaised(t) => Len(sent[t]) = 0

\* One operation ended on a transport failure after one request, another on a
\* credential failure after none.
C7_Witness ==
  \E t, u \in Threads :
    /\ Responded(t, "error") /\ Len(sent[t]) = 1
    /\ Done(u) /\ CredentialRaised(u) /\ Len(sent[u]) = 0

\* C8: a failing get_token, transport or server makes the operation fail; the
\* credential's and the transport's error reach the caller as raised, and the
\* "Request failed" RuntimeError is raised for HTTP error statuses only.
C8_ErrorsPropagate ==
  \A t \in Threads :
    Done(t) =>
      /\ CredentialRaised(t) => result[t] = Raise(tokenCalls[t][1].err)
      /\ response[t].kind = "error" => result[t] = Raise(response[t].err)
      /\ response[t].kind = "HTTPError" => result[t].kind = "raise"
      /\ result[t].exc.type = "RuntimeError" => response[t].kind = "HTTPError"
      /\ result[t].kind = "return" => response[t].kind = "ok"

\* One operation ended with the transport's URLError, another with the
\* credential's error.
C8_Witness ==
  \E t, u \in Threads :
    /\ Responded(t, "error")
    /\ result[t].kind = "raise" /\ result[t].exc.type = "URLError"
    /\ Done(u) /\ CredentialRaised(u)
    /\ result[u].kind = "raise" /\ result[u].exc.type = "ClientAuthenticationError"

\* The locals of caller t's running operation.
Locals(t) == <<op[t], method[t], url[t], body[t], headers[t], tokenCalls[t], sent[t],
               response[t], result[t]>>

\* C9: no step of any operation changes the stored endpoint or the credential
\* reference, nor the state of another caller's operation; each operation that
\* sends a request has made its own get_token call, and its request is the one
\* built from its own arguments, the endpoint and its own token.
C9_CallsIndependent ==
  /\ [](\A t \in Threads : \A i \in 1..Len(sent[t]) :
          /\ Len(tokenCalls[t]) = 1
          /\ sent[t][i].method = ExpectedMethod(op[t])
          /\ sent[t][i].url = ExpectedUrl(op[t])
          /\ sent[t][i].body =
               (IF op[t].data = None THEN None ELSE Bytes(json_dumps(op[t].data)))
          /\ sent[t][i].headers["Authorization"] = "Bearer " \o tokenCalls[t][1].token)
  /\ [][/\ _endpoint' = _endpoint
        /\ _credential' = _credential
        /\ \A t \in Threads : pc'[t] = pc[t] => Locals(t)' = Locals(t)]_vars

\* Two callers run different operations at once, each with its own token and
\* its own request out.
C9_Witness ==
  \E t, u \in Threads :
    /\ op[t].name = "create_profile" /\ op[u].name = "modify_assignments"
    /\ sent[t] # <<>> /\ sent[u] # <<>>
    /\ tokenCalls[t][1].token # tokenCalls[u][1].token
    /\ sent[t][1].url # sent[u][1].url

\* C10: get_token is called once per operation, with the one scope
\* https://graph.microsoft.com/.default, before the request is sent; when it
\* raises, no request is sent.
C10_TokenBeforeRequest ==
  \A t \in Threads :
    /\ Len(tokenCalls[t]) <= 1
    /\ \A i \in 1..Len(tokenCalls[t]) :
         tokenCalls[t][i].scopes = <<"https://graph.microsoft.com/.default">>
    /\ pc[t] \in {"urlopen", "waiting", "done"} => Len(tokenCalls[t]) = 1
    /\ sent[t] # <<>> => Len(tokenCalls[t]) = 1 /\ tokenCalls[t][1].ok
    /\ CredentialRaised(t) => sent[t] = <<>> /\ response[t] = NoResponse

\* One operation is waiting for its response with its token obtained, another
\* has ended on a credential failure without a request.
C10_Witness ==
  \E t, u \in Threads :
    /\ pc[t] = "waiting" /\ Len(sent[t]) = 1 /\ Len(tokenCalls[t]) = 1
    /\ Done(u) /\ CredentialRaised(u) /\ sent[u] = <<>>

=============================================================================
